---------------------------- MODULE Spec2Model ----------------------------
(***************************************************************************)
(* geo.cpp: shapes with a validated dimension, their circumference, and a  *)
(* scene that sums the circumferences of the shapes it shares.             *)
(*                                                                         *)
(* The arithmetic of the program is IEEE-754 arithmetic on double and      *)
(* long double, and it is modelled bit for bit: the magnitude of a finite  *)
(* value is the set of the positions of its one bits (the value of the set *)
(* S is the sum of 2^k for k in S), so that no value of the model is wider *)
(* than an exponent.  long double is the x87 extended format of the        *)
(* x86-64 System V ABI.                                                    *)
(***************************************************************************)
EXTENDS Integers, Sequences, FiniteSets

VARIABLES heap, scenes, last

vars == <<heap, scenes, last>>

(***************************************************************************)
(* Bounds of the model.                                                    *)
(***************************************************************************)
\* shapes alive at once in the specification with scenes
MaxShapes == 1
\* shapes alive at once in the specification of the shapes alone
MaxLive == 1
\* references added to the scenes in all
MaxLen == 3
\* length of a scene's vector in the specification of the insertion orders
MaxOrderLen == 3

(***************************************************************************)
(* Natural numbers and dyadic fractions as sets of bit positions.          *)
(***************************************************************************)
\* the greatest element: the least of the negated elements
Max(S) ==
    LET N == {0 - k : k \in S}
    IN  0 - (CHOOSE x \in N : \A y \in N : x <= y)

Min(S) == CHOOSE x \in S : \A y \in S : x <= y

Shift(A, n) == {k + n : k \in A}

\* A + B: the bits of one alone, plus the carries of the bits of both
RECURSIVE AddBits(_, _)
AddBits(A, B) ==
    IF B = {} THEN A
    ELSE AddBits((A \cup B) \ (A \cap B), Shift(A \cap B, 1))

\* A - B for A >= B: position k lends when a lower position j borrows (a bit
\* of B alone) and no position between can pay (a bit of A alone)
SubBits(A, B) ==
    IF B = {} THEN A
    ELSE LET Borrow(k) ==
                 \E j \in B \ A : j < k /\ \A i \in A \ B : ~(j < i /\ i < k)
         IN  {k \in Min(B)..Max(A) : ((k \in A) # (k \in B)) # Borrow(k)}

\* A * B: the sum of A shifted to each bit of B, B halved at each step
RECURSIVE MulBitsBy(_, _)
MulBitsBy(A, B) ==
    IF B = {} THEN {}
    ELSE LET lo == Min(B)
             hi == Max(B)
             mid == (lo + hi) \div 2
         IN  IF lo = hi THEN Shift(A, lo)
             ELSE AddBits(MulBitsBy(A, {k \in B : k <= mid}),
                          MulBitsBy(A, {k \in B : k > mid}))

MulBits(A, B) ==
    IF Cardinality(A) < Cardinality(B) THEN MulBitsBy(B, A) ELSE MulBitsBy(A, B)

LessBits(A, B) == A # B /\ Max((A \cup B) \ (A \cap B)) \in B

LeqBits(A, B) == A = B \/ LessBits(A, B)

(***************************************************************************)
(* Round to nearest, ties to even: to p significant bits, no bit below     *)
(* position qmin (the subnormal quantum).                                  *)
(***************************************************************************)
RoundBits(A, p, qmin) ==
    IF A = {} THEN {}
    ELSE LET top  == Max(A)
             lsb  == IF top - p + 1 > qmin THEN top - p + 1 ELSE qmin
             keep == {k \in A : k >= lsb}
             up   == /\ (lsb - 1) \in A
                     /\ \/ lsb \in A
                        \/ \E k \in A : k < lsb - 1
         IN  IF up THEN AddBits(keep, {lsb}) ELSE keep

(***************************************************************************)
(* The two floating-point types of the program.                            *)
(***************************************************************************)
DBL_MANT_DIG == 53
DBL_MAX_EXP == 1024
DBL_MIN_EXP == -1021
LDBL_MANT_DIG == 64
LDBL_MAX_EXP == 16384
LDBL_MIN_EXP == -16381

Fin(neg, bits) == [cls |-> "fin", neg |-> neg, bits |-> bits]
Inf(neg) == [cls |-> "inf", neg |-> neg, bits |-> {}]
NaN == [cls |-> "nan", neg |-> FALSE, bits |-> {}]

\* a finite magnitude rounded into a format: overflow gives infinity
RoundTo(neg, A, p, minexp, maxexp) ==
    LET R == RoundBits(A, p, minexp - p)
    IN  IF R # {} /\ Max(R) >= maxexp THEN Inf(neg) ELSE Fin(neg, R)

\* the conversion of a long double to double (a function's return value)
ToDouble(x) ==
    IF x.cls = "fin"
    THEN RoundTo(x.neg, x.bits, DBL_MANT_DIG, DBL_MIN_EXP, DBL_MAX_EXP)
    ELSE x

IsZero(x) == x.cls = "fin" /\ x.bits = {}

\* sign and magnitude of an exact sum or difference
RoundSum(a, b, p, minexp, maxexp) ==
    IF a.neg = b.neg
    THEN RoundTo(a.neg, AddBits(a.bits, b.bits), p, minexp, maxexp)
    ELSE IF a.bits = b.bits THEN Fin(FALSE, {})
    ELSE IF LessBits(b.bits, a.bits)
    THEN RoundTo(a.neg, SubBits(a.bits, b.bits), p, minexp, maxexp)
    ELSE RoundTo(b.neg, SubBits(b.bits, a.bits), p, minexp, maxexp)

\* operator* on long double
LMul(a, b) ==
    IF a.cls = "nan" \/ b.cls = "nan" THEN NaN
    ELSE IF a.cls = "inf" \/ b.cls = "inf"
    THEN IF IsZero(a) \/ IsZero(b) THEN NaN ELSE Inf(a.neg # b.neg)
    ELSE RoundTo(a.neg # b.neg, MulBits(a.bits, b.bits),
                 LDBL_MANT_DIG, LDBL_MIN_EXP, LDBL_MAX_EXP)

\* operator+ on double
DAdd(a, b) ==
    IF a.cls = "nan" \/ b.cls = "nan" THEN NaN
    ELSE IF a.cls = "inf" /\ b.cls = "inf"
    THEN IF a.neg = b.neg THEN a ELSE NaN
    ELSE IF a.cls = "inf" THEN a
    ELSE IF b.cls = "inf" THEN b
    ELSE RoundSum(a, b, DBL_MANT_DIG, DBL_MIN_EXP, DBL_MAX_EXP)

\* operator< on double
DLess(a, b) ==
    IF a.cls = "nan" \/ b.cls = "nan" THEN FALSE
    ELSE IF IsZero(a) /\ IsZero(b) THEN FALSE
    ELSE IF a.neg # b.neg THEN a.neg
    ELSE IF a.cls = "inf" \/ b.cls = "inf"
    THEN a.cls # b.cls /\ (IF a.neg THEN a.cls = "inf" ELSE b.cls = "inf")
    ELSE IF a.neg THEN LessBits(b.bits, a.bits) ELSE LessBits(a.bits, b.bits)


(***************************************************************************)
(* The values a caller passes as a dimension.                              *)
(***************************************************************************)
Zero == Fin(FALSE, {})
NegZero == Fin(TRUE, {})
One == Fin(FALSE, {0})
NegOne == Fin(TRUE, {0})
\* the smallest subnormal double
MinSub == Fin(FALSE, {DBL_MIN_EXP - DBL_MANT_DIG})
\* the double nearest to 1/3
Third == Fin(FALSE, {-2 * k : k \in 1..27})
\* DBL_MAX
DblMax == Fin(FALSE, (DBL_MAX_EXP - DBL_MANT_DIG)..(DBL_MAX_EXP - 1))
\* DBL_MAX / 4, and a quarter of half an ulp of DBL_MAX
Big == Fin(FALSE, Shift(DblMax.bits, -2))
Small == Fin(FALSE, {DBL_MAX_EXP - DBL_MANT_DIG - 4})
\* a quarter of half an ulp of 1
Tiny == Fin(FALSE, {0 - DBL_MANT_DIG - 2})

\* half of DBL_MIN: a subnormal radius of a circle whose circumference is normal
HalfMin == Fin(FALSE, {DBL_MIN_EXP - 2})

Dims == {NegOne, Inf(TRUE), NegZero, Zero, MinSub, HalfMin, Third, One, Small,
         Big, DblMax, Inf(FALSE), NaN}

SceneDims == {NegOne, One}

(***************************************************************************)
(* std::atan(1): the double nearest to pi / 4.  Pi is the first 90         *)
(* fractional bits of pi.                                                  *)
(***************************************************************************)
Pi ==
    {-87, -85, -81, -80, -77, -76, -72, -71, -68, -64, -63, -60, -58, -57,
     -53, -48, -47, -43, -41, -40, -38, -33, -29, -25, -23, -21, -19, -18,
     -16, -15, -14, -13, -12, -11, -6, -3, 0, 1}

\* mutant: std::atan(1.f), the float nearest to pi / 4
atan1_float == RoundTo(FALSE, Shift(Pi, -2), 24, -125, 128)

atan1 == RoundTo(FALSE, Shift(Pi, -2), DBL_MANT_DIG, DBL_MIN_EXP, DBL_MAX_EXP)

(***************************************************************************)
(* The shapes.  A shape object is [type, dim]: dim is r_ or side_.         *)
(***************************************************************************)
circle_get_circumference(r_) ==
    ToDouble(LMul(LMul(Fin(FALSE, {3}), atan1), r_))

\* mutant: the factor of the triangle, copied
square_get_circumference_copied(side_) ==
    ToDouble(LMul(Fin(FALSE, {0, 1}), side_))

square_get_circumference(side_) ==
    ToDouble(LMul(Fin(FALSE, {2}), side_))

equilateral_triangle_get_circumference(side_) ==
    ToDouble(LMul(Fin(FALSE, {0, 1}), side_))

\* the virtual call shape::get_circumference
get_circumference(obj) ==
    CASE obj.type = "circle" -> circle_get_circumference(obj.dim)
      [] obj.type = "square" -> square_get_circumference(obj.dim)
      [] obj.type = "equilateral_triangle" ->
             equilateral_triangle_get_circumference(obj.dim)

\* mutant: r <= 0
dimension_not_above_zero(d) == DLess(d, Zero) \/ IsZero(d)

\* the test of the three constructors
dimension_smaller_than_zero(d) == DLess(d, Zero)

\* a process that dereferenced a null pointer and was killed runs no more
Running == last.outcome # "fault"

\* a constructor: the member is initialised, then the test may throw and
\* the object is never seen
construct(type, d, cap) ==
    /\ Running
    /\ IF dimension_smaller_than_zero(d)
       THEN /\ heap' = heap
            /\ last' = [op |-> "new", outcome |-> "threw", type |-> type,
                        arg |-> d]
       ELSE /\ Len(heap) < cap
            /\ heap' = Append(heap, [type |-> type, dim |-> d])
            /\ last' = [op |-> "new", outcome |-> "returned", type |-> type,
                        arg |-> d]
    /\ UNCHANGED scenes

circle(r, cap) == construct("circle", r, cap)

square(side, cap) == construct("square", side, cap)

equilateral_triangle(side, cap) == construct("equilateral_triangle", side, cap)

\* mutant: the member is overwritten with the product (r_ *= ...)
shape_get_circumference_in_place(s) ==
    /\ Running
    /\ last' = [op |-> "get_circumference", outcome |-> "returned", ref |-> s,
                val |-> get_circumference(heap[s])]
    /\ heap' = [heap EXCEPT ![s].dim = get_circumference(heap[s])]
    /\ UNCHANGED scenes

\* a caller's call of get_circumference on a shape it holds
shape_get_circumference(s) ==
    /\ Running
    /\ last' = [op |-> "get_circumference", outcome |-> "returned", ref |-> s,
                val |-> get_circumference(heap[s])]
    /\ UNCHANGED <<heap, scenes>>

(***************************************************************************)
(* The scene.  shapes_ is a sequence of references: an index of heap, or 0 *)
(* for an empty shared_ptr.                                                *)
(***************************************************************************)
SceneIds == {1, 2}

\* mutant: shapes_.insert(shapes_.begin(), ...)
add_shape_in_front(sc, s, cap) ==
    /\ Running
    /\ Len(scenes[sc]) < cap
    /\ scenes' = [scenes EXCEPT ![sc] = <<s>> \o @]
    /\ last' = [op |-> "add_shape", outcome |-> "returned"]
    /\ UNCHANGED heap

add_shape(sc, s, cap) ==
    /\ Running
    /\ Len(scenes[sc]) < cap
    /\ scenes' = [scenes EXCEPT ![sc] = Append(@, s)]
    /\ last' = [op |-> "add_shape", outcome |-> "returned"]
    /\ UNCHANGED heap

\* what a call through an empty shared_ptr may give when it does not trap
Garbage == {One, NaN}

\* mutant: the lambda returns b->get_circumference() and drops a
RECURSIVE accumulate_dropping(_, _, _, _)
accumulate_dropping(shapes_, i, acc, junk) ==
    IF i > Len(shapes_) THEN acc
    ELSE LET b == shapes_[i]
             c == IF b = 0 THEN junk ELSE get_circumference(heap[b])
         IN  accumulate_dropping(shapes_, i + 1, c, junk)

\* mutant: the sum starts at the second element
RECURSIVE accumulate_from_second(_, _, _, _)
accumulate_from_second(shapes_, i, acc, junk) ==
    IF i > Len(shapes_) THEN acc
    ELSE LET b == shapes_[i]
             c == IF b = 0 THEN junk
                  ELSE IF i = 1 THEN Zero ELSE get_circumference(heap[b])
         IN  accumulate_from_second(shapes_, i + 1, DAdd(ToDouble(acc), c), junk)

\* std::accumulate over shapes_ from shapes_[i] on: the accumulator is a long
\* double, the lambda takes it as a double and returns a double; junk is what
\* a call through an empty shared_ptr gives
RECURSIVE accumulate(_, _, _, _)
accumulate(shapes_, i, acc, junk) ==
    IF i > Len(shapes_) THEN acc
    ELSE LET b == shapes_[i]
             c == IF b = 0 THEN junk ELSE get_circumference(heap[b])
         IN  accumulate(shapes_, i + 1, DAdd(ToDouble(acc), c), junk)

\* the value scene::get_circumference returns: the long double of
\* std::accumulate from 0.0L, converted to double
scene_circumference(shapes_, junk) ==
    ToDouble(accumulate(shapes_, 1, Zero, junk))

\* mutant: the shapes are taken out of the vector as they are summed
scene_get_circumference_draining(sc) ==
    /\ Running
    /\ last' = [op |-> "scene_get_circumference", outcome |-> "returned",
                scene |-> sc, val |-> scene_circumference(scenes[sc], NaN)]
    /\ scenes' = [scenes EXCEPT ![sc] = <<>>]
    /\ UNCHANGED heap

\* a call through an empty shared_ptr is undefined: the process is killed, or
\* the call gives anything
scene_get_circumference(sc) ==
    /\ Running
    /\ IF \E i \in 1..Len(scenes[sc]) : scenes[sc][i] = 0
       THEN \/ last' = [op |-> "scene_get_circumference", outcome |-> "fault",
                        scene |-> sc, val |-> NaN]
            \/ \E junk \in Garbage :
                 last' = [op |-> "scene_get_circumference",
                          outcome |-> "returned", scene |-> sc,
                          val |-> scene_circumference(scenes[sc], junk)]
       ELSE last' = [op |-> "scene_get_circumference", outcome |-> "returned",
                     scene |-> sc,
                     val |-> scene_circumference(scenes[sc], NaN)]
    /\ UNCHANGED <<heap, scenes>>

(***************************************************************************)
(* The specifications.                                                     *)
(***************************************************************************)
Init ==
    /\ heap = <<>>
    /\ scenes = [sc \in SceneIds |-> <<>>]
    /\ last = [op |-> "start", outcome |-> "returned"]

\* a caller with scenes
Next ==
    \/ \E d \in SceneDims : circle(d, MaxShapes)
    \/ \E d \in SceneDims : square(d, MaxShapes)
    \/ \E d \in SceneDims : equilateral_triangle(d, MaxShapes)
    \/ \E s \in 1..Len(heap) : shape_get_circumference(s)
    \/ /\ Len(scenes[1]) + Len(scenes[2]) < MaxLen
       /\ \E sc \in SceneIds, s \in 0..Len(heap) : add_shape(sc, s, MaxLen)
    \/ \E sc \in SceneIds : scene_get_circumference(sc)

Spec == Init /\ [][Next]_vars

\* a caller of the shapes alone
NextShapes ==
    \/ \E d \in Dims : circle(d, MaxLive)
    \/ \E d \in Dims : square(d, MaxLive)
    \/ \E d \in Dims : equilateral_triangle(d, MaxLive)
    \/ \E s \in 1..Len(heap) : shape_get_circumference(s)

SpecShapes == Init /\ [][NextShapes]_vars

\* a caller that has made two shapes and fills two scenes with them in any
\* order
OrderShapes ==
    {[type |-> "square", dim |-> Big], [type |-> "square", dim |-> Small],
     [type |-> "equilateral_triangle", dim |-> Third],
     [type |-> "square", dim |-> Tiny]}

InitOrder ==
    /\ heap \in {<<a, b>> : a, b \in OrderShapes}
    /\ scenes = [sc \in SceneIds |-> <<>>]
    /\ last = [op |-> "start", outcome |-> "returned"]

NextOrder ==
    \/ \E sc \in SceneIds, s \in 1..Len(heap) : add_shape(sc, s, MaxOrderLen)
    \/ \E sc \in SceneIds : scene_get_circumference(sc)

SpecOrder == InitOrder /\ [][NextOrder]_vars

(***************************************************************************)
(* What the claims say of a double as a number.                            *)
(***************************************************************************)
\* d < 0
Negative(d) == d.cls # "nan" /\ d.neg /\ ~IsZero(d)

\* d >= 0
NonNegative(d) == d.cls # "nan" /\ (~d.neg \/ IsZero(d))

\* the product of two doubles as IEEE-754 defines it: the exact product,
\* rounded once to double
ProductAsDouble(a, b) ==
    IF a.cls = "nan" \/ b.cls = "nan" THEN NaN
    ELSE IF a.cls = "inf" \/ b.cls = "inf"
    THEN IF IsZero(a) \/ IsZero(b) THEN NaN ELSE Inf(a.neg # b.neg)
    ELSE RoundTo(a.neg # b.neg, MulBits(a.bits, b.bits),
                 DBL_MANT_DIG, DBL_MIN_EXP, DBL_MAX_EXP)

\* the shape a call of get_circumference was made on
Queried == heap[last.ref]

(***************************************************************************)
(* C1: a constructor fails with dimension_smaller_than_zero if and only if *)
(* the dimension it is given is below zero; when it does not fail the new  *)
(* shape holds the dimension; a dimension of zero succeeds and the shape's *)
(* circumference is zero.                                                  *)
(***************************************************************************)
C1_FailsIffNegative ==
    last.op = "new" =>
        /\ (last.outcome = "threw") <=> Negative(last.arg)
        /\ last.outcome = "returned" =>
               heap[Len(heap)] = [type |-> last.type, dim |-> last.arg]
        /\ IsZero(last.arg) =>
               /\ last.outcome = "returned"
               /\ IsZero(get_circumference(heap[Len(heap)]))

C1_Witness ==
    /\ last.op = "new"
    /\ last.outcome = "threw"
    /\ last.type = "equilateral_triangle"
    /\ \E i \in 1..Len(heap) : heap[i].type = "circle" /\ IsZero(heap[i].dim)

(***************************************************************************)
(* C3: for a side >= 0 the circumference of a square is the double 4 *     *)
(* side and that of an equilateral triangle is the double 3 * side; a unit *)
(* square gives 4 and a unit triangle 3.                                   *)
(***************************************************************************)
C3_FourAndThreeTimesSide ==
    (last.op = "get_circumference" /\ NonNegative(Queried.dim)) =>
        /\ Queried.type = "square" =>
               /\ last.val = ProductAsDouble(Fin(FALSE, {2}), Queried.dim)
               /\ Queried.dim = One => last.val = Fin(FALSE, {2})
        /\ Queried.type = "equilateral_triangle" =>
               /\ last.val = ProductAsDouble(Fin(FALSE, {0, 1}), Queried.dim)
               /\ Queried.dim = One => last.val = Fin(FALSE, {0, 1})

\* 3 * Third is not a double: the product is rounded, to 1
C3_Witness ==
    /\ last.op = "get_circumference"
    /\ Queried.type = "equilateral_triangle"
    /\ Queried.dim = Third
    /\ last.val = One

(***************************************************************************)
(* C4: for a radius >= 0 the circumference of a circle is 2 * pi * radius  *)
(* within a relative tolerance of 1e-9.  pi lies between PiLow and PiHigh, *)
(* so c is within the tolerance of 2 * pi * r                              *)
(*   if   (10^9 - 1) * 2 * PiHigh * r <= 10^9 * c <= (10^9 + 1) * 2 * PiLow * r   *)
(*   only if (10^9 - 1) * 2 * PiLow * r <= 10^9 * c <= (10^9 + 1) * 2 * PiHigh * r *)
(***************************************************************************)
PiLow == Pi

PiHigh == AddBits(Pi, {-90})

Billion == {9, 11, 14, 15, 17, 19, 20, 23, 24, 25, 27, 28, 29}

Between(c, r, piBelow, piAbove) ==
    /\ LeqBits(MulBits(SubBits(Billion, {0}), MulBits(Shift(piBelow, 1), r)),
               MulBits(Billion, c))
    /\ LeqBits(MulBits(Billion, c),
               MulBits(AddBits(Billion, {0}), MulBits(Shift(piAbove, 1), r)))

SurelyWithinTolerance(c, r) == Between(c, r, PiHigh, PiLow)

MaybeWithinTolerance(c, r) == Between(c, r, PiLow, PiHigh)

CircleQueried ==
    /\ last.op = "get_circumference"
    /\ Queried.type = "circle"
    /\ NonNegative(Queried.dim)

\* the claim as made: every radius >= 0 (an infinite radius has an infinite
\* circumference)
C4_AsClaimed ==
    CircleQueried =>
        IF Queried.dim.cls = "inf" THEN last.val = Queried.dim
        ELSE /\ last.val.cls = "fin"
             /\ NonNegative(last.val)
             /\ MaybeWithinTolerance(last.val.bits, Queried.dim.bits)

\* a double that is zero or normal
ZeroOrNormal(c) ==
    c.cls = "fin" /\ (c.bits = {} \/ Max(c.bits) >= DBL_MIN_EXP - 1)

\* amended: for the radii whose circumference is returned as zero or as a
\* normal double
C4_WithinToleranceWhenNormal ==
    (CircleQueried /\ ZeroOrNormal(last.val)) =>
        /\ NonNegative(last.val)
        /\ SurelyWithinTolerance(last.val.bits, Queried.dim.bits)

C4_Witness ==
    /\ CircleQueried
    /\ Queried.dim = HalfMin
    /\ ZeroOrNormal(last.val)
    /\ last.val.bits # {}

(***************************************************************************)
(* C10: every shape that exists, held by a caller or by a scene, has a     *)
(* dimension >= 0.                                                         *)
(***************************************************************************)
C10_EveryDimensionNonNegative ==
    /\ \A i \in 1..Len(heap) : NonNegative(heap[i].dim)
    /\ \A sc \in SceneIds : \A i \in 1..Len(scenes[sc]) :
           scenes[sc][i] # 0 => NonNegative(heap[scenes[sc][i]].dim)

(***************************************************************************)
(* What the claims say of a scene.                                         *)
(***************************************************************************)
\* every reference of the vector refers to a shape
HoldsShapes(shapes_) == \A i \in 1..Len(shapes_) : shapes_[i] # 0

\* the sum of the circumferences in double arithmetic, from 0.0, from the
\* first shape to the last
LeftToRightSum(shapes_) ==
    LET sum[i \in 0..Len(shapes_)] ==
            IF i = 0 THEN Zero
            ELSE DAdd(sum[i - 1], get_circumference(heap[shapes_[i]]))
    IN  sum[Len(shapes_)]

SceneQueried == last.op = "scene_get_circumference"

C5_NeverFails ==
    last.op \in {"add_shape", "get_circumference", "scene_get_circumference"}
        => last.outcome = "returned"

(***************************************************************************)
(* C6: a scene starts empty, add_shape appends its argument to the vector  *)
(* of one scene and leaves the rest as it was, and no other operation      *)
(* changes a vector.                                                       *)
(***************************************************************************)
C6_AppendOnly ==
    /\ \A sc \in SceneIds : scenes[sc] = <<>>
    /\ [][IF last'.op = "add_shape"
          THEN \E sc \in SceneIds, s \in 0..Len(heap) :
                   scenes' = [scenes EXCEPT ![sc] = Append(@, s)]
          ELSE scenes' = scenes]_vars

C6_Witness ==
    /\ last.op = "add_shape"
    /\ \E sc \in SceneIds :
           /\ Len(scenes[sc]) = 2
           /\ scenes[sc][1] # scenes[sc][2]

(***************************************************************************)
(* C7: a call of get_circumference changes no shape and no scene, and two  *)
(* calls in a row on the same shape, or on the same scene of shapes,       *)
(* return the same.                                                        *)
(***************************************************************************)
IsQuery(l) == l.op \in {"get_circumference", "scene_get_circumference"}

SameTarget(l, m) ==
    /\ l.op = m.op
    /\ l.op = "get_circumference" => l.ref = m.ref
    /\ l.op = "scene_get_circumference" =>
           /\ l.scene = m.scene
           /\ HoldsShapes(scenes[l.scene])

C7_QueriesChangeNothing ==
    [][IsQuery(last') =>
          /\ heap' = heap
          /\ scenes' = scenes
          /\ (IsQuery(last) /\ SameTarget(last, last')) =>
                 /\ last'.outcome = last.outcome
                 /\ last'.val = last.val]_vars

C7_Witness ==
    /\ SceneQueried
    /\ last.outcome = "returned"
    /\ Len(scenes[last.scene]) = 2
    /\ HoldsShapes(scenes[last.scene])

(***************************************************************************)
(* C8: a shape that two scenes refer to stays in both and its              *)
(* circumference stays what it was, whatever is done next.                 *)
(***************************************************************************)
InScene(s, sc) == \E i \in 1..Len(scenes[sc]) : scenes[sc][i] = s

Shared(s) == \A sc \in SceneIds : InScene(s, sc)

C8_SharedShapeUnchanged ==
    [][\A s \in 1..Len(heap) :
          Shared(s) =>
              /\ Shared(s)'
              /\ heap'[s] = heap[s]
              /\ get_circumference(heap'[s]) = get_circumference(heap[s])]_vars

C8_Witness ==
    /\ last.op = "get_circumference"
    /\ Shared(last.ref)
    /\ Len(scenes[1]) # Len(scenes[2])

(***************************************************************************)
(* C9: two scenes of the same shapes in two orders have circumferences     *)
(* equal within a small relative tolerance, 1e-9 of the larger.            *)
(***************************************************************************)
Count(shapes_, s) == Cardinality({i \in 1..Len(shapes_) : shapes_[i] = s})

SameShapes(a, b) ==
    /\ Len(a) = Len(b)
    /\ \A s \in 0..Len(heap) : Count(a, s) = Count(b, s)

\* two non-negative doubles within 1e-9 of the larger
Close(x, y) ==
    \/ x = y
    \/ /\ x.cls = "fin"
       /\ y.cls = "fin"
       /\ IF LessBits(x.bits, y.bits)
          THEN LeqBits(MulBits(Billion, SubBits(y.bits, x.bits)), y.bits)
          ELSE LeqBits(MulBits(Billion, SubBits(x.bits, y.bits)), x.bits)

Other(sc) == CHOOSE o \in SceneIds : o # sc

\* the scene just queried and the other hold the same shapes
OrdersCompared ==
    /\ SceneQueried
    /\ last.outcome = "returned"
    /\ HoldsShapes(scenes[last.scene])
    /\ SameShapes(scenes[1], scenes[2])

OtherSum == scene_circumference(scenes[Other(last.scene)], NaN)

=============================================================================
